---- MODULE Spec2Model ----
(***************************************************************************)
(* Model of bot.py: the download-job orchestration of the Telegram bot.   *)
(*                                                                         *)
(* One callback_query_handler coroutine runs per request on a single      *)
(* asyncio event loop.  A coroutine gives up the loop only at an `await`  *)
(* of sink I/O (bot.send_message, bot.edit_message_text, bot.send_video,  *)
(* bot.send_audio); every action below is the code between two such       *)
(* awaits.  ydl.extract_info is a plain synchronous call: the coroutine    *)
(* that makes it keeps the loop (variable `running`) until it returns.    *)
(* The sink and the extraction engine are external: each sink reply is    *)
(* ok or rejected, and the engine raises or returns, leaving a file of    *)
(* the derived name, an empty one, or none.                                *)
(***************************************************************************)
EXTENDS Integers, Sequences, FiniteSets, TLC

\* ------------------------------------------------------------------ bounds
\* Samples the engine emits through the progress hook, over all requests.
MaxSamples == 2

\* The requests (callback queries) handled concurrently.
Requests == {"r1", "r2"}

\* The URLs a callback payload can carry; the engine's title is per URL.
Urls == {"u1"}

\* Longest message text handle_url is given, in characters.
MaxUrlLen == 3

\* The characters of a message text.
UrlChars == {"h", "/", ":"}

\* ------------------------------------------------------------ program data
VIDEO_HIGH == "video_high"
VIDEO_LOW == "video_low"
AUDIO == "audio"

\* The profile tags handle_url puts into callback payloads.
DownloadOption == {VIDEO_HIGH, VIDEO_LOW, AUDIO}

\* Tags that reach callback_query_handler in a payload no button of handle_url
\* carries (callback data is chosen by the client that sends it).
VIDEO_OTHER == "video_mid"
OTHER_TAG == "gif"

Tags == DownloadOption \cup {VIDEO_OTHER, OTHER_TAG}

\* The characters of a tag.
Chars(tag) ==
    CASE tag = VIDEO_HIGH -> <<"v", "i", "d", "e", "o", "_", "h", "i", "g", "h">>
      [] tag = VIDEO_LOW -> <<"v", "i", "d", "e", "o", "_", "l", "o", "w">>
      [] tag = AUDIO -> <<"a", "u", "d", "i", "o">>
      [] tag = VIDEO_OTHER -> <<"v", "i", "d", "e", "o", "_", "m", "i", "d">>
      [] tag = OTHER_TAG -> <<"g", "i", "f">>
      [] OTHER -> <<>>

VideoPrefix == <<"v", "i", "d", "e", "o">>

\* option.startswith('video')
StartsWithVideo(option) ==
    LET c == Chars(option)
    IN  Len(c) >= Len(VideoPrefix) /\ SubSeq(c, 1, Len(VideoPrefix)) = VideoPrefix

NoTask == "none"
Nobody == "nobody"

\* A path that holds no file, and the value of a check not made.
NoFile == [size |-> -1, owner |-> Nobody]
Unchecked == [size |-> -2, owner |-> Nobody]

\* No artifact returned by download_file (yet).
NoPath == <<"none", "none">>

\* info['title'] of the engine's result: one title per URL.
Title(u) == u

\* f"{title}.mp3" / f"{title}.mp4"
FileName(title, ext) == <<title, ext>>

Paths == {FileName(Title(u), e) : u \in Urls, e \in {"mp4", "mp3"}}

\* What the engine call can do.
EngineOutcomes == {"raise", "file", "empty", "nofile"}

\* d['status'] of a progress sample.
SampleStatus == {"downloading", "finished"}

NoOpts == [raised |-> TRUE, format |-> "none", postprocessor |-> "none",
           target |-> "none", quality |-> "none"]

\* Lines 97-101: the options every call starts from: no 'format', no 'postprocessors'.
BaseOpts == [raised |-> FALSE, format |-> "none", postprocessor |-> "none",
             target |-> "none", quality |-> "none"]

\* Lines 104-108: the video options.
VideoOpts(option) ==
    [BaseOpts EXCEPT !.format = IF option = VIDEO_HIGH THEN "bestvideo+bestaudio/best"
                                                       ELSE "worstvideo+worstaudio/worst",
                     !.postprocessor = "FFmpegVideoConvertor",
                     !.target = "mp4"]

\* Lines 111-116: the audio options.
AudioOpts ==
    [BaseOpts EXCEPT !.format = "bestaudio/best",
                     !.postprocessor = "FFmpegExtractAudio",
                     !.target = "mp3",
                     !.quality = "192"]

\* get_ydl_opts with FFMPEG_AVAILABLE = ffmpeg: the options, or NoOpts when it raises.
get_ydl_opts_no_check(option, ffmpeg) ==
    IF StartsWithVideo(option) THEN VideoOpts(option)
    ELSE IF option = AUDIO THEN AudioOpts
    ELSE BaseOpts

get_ydl_opts_same_format(option, ffmpeg) ==
    IF StartsWithVideo(option) THEN VideoOpts(VIDEO_HIGH)
    ELSE IF option = AUDIO THEN (IF ffmpeg THEN AudioOpts ELSE NoOpts)
    ELSE BaseOpts

get_ydl_opts(option, ffmpeg) ==
    IF StartsWithVideo(option) THEN VideoOpts(option)
    ELSE IF option = AUDIO THEN (IF ffmpeg THEN AudioOpts ELSE NoOpts)
    ELSE BaseOpts

\* download_file, lines 127-131: the file name derived from title and options.
DerivedFile(title, opts) ==
    IF opts.postprocessor = "FFmpegExtractAudio"
    THEN FileName(title, "mp3")
    ELSE FileName(title, "mp4")

\* The engine's effect on disk: with outcome "file" or "empty" it leaves its
\* output under the derived name (outtmpl '%(title)s.%(ext)s').
EngineWrite(disk, r, path, outcome) ==
    IF outcome = "file" THEN [disk EXCEPT ![path] = [size |-> 1, owner |-> r]]
    ELSE IF outcome = "empty" THEN [disk EXCEPT ![path] = [size |-> 0, owner |-> r]]
    ELSE disk

\* download_file, lines 124-146: its result given what the engine did and the
\* state of the derived file when it is checked.
download_file_no_exists_check(outcome, file) ==
    IF outcome = "raise" THEN "ExtractionFailed"
    ELSE IF file.size = 0 THEN "EmptyArtifact"
    ELSE "ok"

download_file(outcome, file) ==
    IF outcome = "raise" THEN "ExtractionFailed"
    ELSE IF file = NoFile THEN "ArtifactMissing"
    ELSE IF file.size = 0 THEN "EmptyArtifact"
    ELSE "ok"

\* send_file, lines 151-154: the delivery call chosen for the option.
DeliveryKind_always_video(option) == "send_video"

DeliveryKind(option) ==
    IF StartsWithVideo(option) THEN "send_video" ELSE "send_audio"

\* progress_hook, line 40: the edits a progress task issues for a sample.
progress_hook_edits_any_status(status) == 1

progress_hook_edits(status) == IF status = "downloading" THEN 1 ELSE 0

\* progress_hook, lines 47-50: how the task ends after the sink answered its edit.
progress_hook_no_except(ok) == IF ok THEN "returned" ELSE "raised"

progress_hook_result(ok) == "returned"

\* ---------------------------------------------------- prompt and payload
\* The message texts handle_url is given: strings as sequences of characters.
UrlTexts == UNION {[1..n -> UrlChars] : n \in 0..MaxUrlLen}

\* Lines 64-65, 71: f"{tag}:{url}", the callback data of a button.
callback_data(tag, text) == Chars(tag) \o <<":">> \o text

\* Lines 64-65, 71: a button, with the text shown to the user.
Button(label, tag, text) == [text |-> label, callback_data |-> callback_data(tag, text)]

VideoRow(text) ==
    << Button("Video (high quality)", VIDEO_HIGH, text),
       Button("Video (low quality)", VIDEO_LOW, text) >>

AudioRow(text) == << Button("Audio only", AUDIO, text) >>

\* handle_url, lines 62-72: the keyboard built for a message text.
handle_url_markup_always_audio(text, ffmpeg) == <<VideoRow(text), AudioRow(text)>>

handle_url_markup(text, ffmpeg) ==
    IF ffmpeg THEN <<VideoRow(text), AudioRow(text)>> ELSE <<VideoRow(text)>>

\* The positions of ':' in a string.
Colons(data) == {i \in 1..Len(data) : data[i] = ":"}

Min(S) == CHOOSE i \in S : \A j \in S : i <= j
Max(S) == CHOOSE i \in S : \A j \in S : i >= j

\* Line 80: data.split(':', 1), the list of the parts.
split_at_last_colon(data) ==
    IF Colons(data) = {} THEN <<data>>
    ELSE LET i == Max(Colons(data))
         IN  <<SubSeq(data, 1, i - 1), SubSeq(data, i + 1, Len(data))>>

split_first_colon(data) ==
    IF Colons(data) = {} THEN <<data>>
    ELSE LET i == Min(Colons(data))
         IN  <<SubSeq(data, 1, i - 1), SubSeq(data, i + 1, Len(data))>>

\* ------------------------------------------------------------ progress bar
\* create_progress_bar(percent, width=20), line 34.
Width == 20

\* n copies of a cell: '█' * n.
Cells(cell, n) == [i \in 1..n |-> cell]

\* The percent values of samples, in tenths of a percent: float(d['_percent_str'])
\* of yt-dlp's one-decimal figure, 0.0 to 100.0.
Percents == 0..1000

\* create_progress_bar, lines 35-37, for percent = p10 / 10: the cells of the
\* bar and the figure printed after it.
create_progress_bar_width_minus_one(p10) ==
    LET filled_length == (Width * p10) \div 1000
    IN  [bar |-> Cells("full", filled_length) \o Cells("empty", Width - 1 - filled_length),
         figure |-> p10]

create_progress_bar(p10) ==
    LET filled_length == (Width * p10) \div 1000
    IN  [bar |-> Cells("full", filled_length) \o Cells("empty", Width - filled_length),
         figure |-> p10]

NoBar == [bar |-> <<>>, figure |-> -1]

\* ------------------------------------------------------------------- state
VARIABLES
    FFMPEG_AVAILABLE,  \* shutil.which('ffmpeg') is not None, fixed at startup
    pc,          \* per request: where its handler stands
    option,      \* per request: the profile tag of its payload
    url,         \* per request: the URL of its payload
    running,     \* the request whose handler holds the event loop in a blocking call
    fs,          \* the working directory: path -> file
    artifact,    \* per request: downloaded_file once download_file returned it
    statusText,  \* per request: text of its status message at the sink
    scheduled,   \* per request, per sample status: progress tasks created, not yet run
    awaiting,    \* per request: progress tasks awaiting the reply to their edit
    nSamples,    \* samples emitted so far
    taskErrors,  \* progress tasks that ended with an unhandled exception
    progressErrors, \* per request: "Error updating progress" entries logged
    engineRes,   \* per request: what its engine call did
    seen,        \* per request: the derived file as download_file found it
    dlResult,    \* per request: result of download_file
    deliveries,  \* per request: the delivery calls issued
    errCalls,    \* per request: error messages sent (send_message calls issued)
    errSeen,     \* per request: error messages the sink accepted
    doneEdit,    \* per request: the edit to the 'done' text
    fsOps,       \* per request: files written and removed by it
    ydl_opts,    \* per request: the options get_ydl_opts returned to its handler
    events,      \* per request: its delivery call, os.remove and 'done' edit, in order
    tags         \* the tags callback payloads carry in this run

VARIABLES
    uiPc,        \* where handle_url, a click on its prompt, or a rendering stands
    text,        \* message.text given to handle_url
    markup,      \* the keyboard handle_url built
    notices,     \* 'audio unavailable' notices sent
    prompts,     \* prompts sent
    clicked,     \* the button the user clicked
    decoded,     \* the parts callback_query_handler split its payload into
    percent,     \* percent of the sample rendered, in tenths
    rendered     \* the progress bar rendered for it

uiVars == <<uiPc, text, markup, notices, prompts, clicked, decoded, percent, rendered>>

NoButton == [text |-> "none", callback_data |-> <<>>]

handlerVars == <<pc, option, url, running, fs, artifact, engineRes, seen, dlResult,
                 deliveries, errCalls, errSeen, doneEdit, fsOps, ydl_opts, events>>

vars == <<FFMPEG_AVAILABLE, pc, option, url, running, fs, artifact, statusText,
          scheduled, awaiting, nSamples, taskErrors, progressErrors, engineRes, seen, dlResult,
          deliveries, errCalls, errSeen, doneEdit, fsOps, ydl_opts, events, tags,
          uiVars>>

Terminal == {"done", "failed"}

\* The event loop is free and no created task waits to be started: tasks made
\* by asyncio.create_task are started before the loop handles the next I/O event.
LoopIdle ==
    /\ running = NoTask
    /\ \A r \in Requests, s \in SampleStatus : scheduled[r][s] = 0

\* The state after start-up, but for the tags of the run.
InitState ==
    /\ FFMPEG_AVAILABLE \in BOOLEAN
    /\ pc = [r \in Requests |-> "idle"]
    /\ option = [r \in Requests |-> "none"]
    /\ url = [r \in Requests |-> "none"]
    /\ running = NoTask
    /\ fs = [p \in Paths |-> NoFile]
    /\ artifact = [r \in Requests |-> NoPath]
    /\ statusText = [r \in Requests |-> "none"]
    /\ scheduled = [r \in Requests |-> [s \in SampleStatus |-> 0]]
    /\ awaiting = [r \in Requests |-> 0]
    /\ nSamples = 0
    /\ taskErrors = 0
    /\ progressErrors = [r \in Requests |-> 0]
    /\ engineRes = [r \in Requests |-> "none"]
    /\ seen = [r \in Requests |-> Unchecked]
    /\ dlResult = [r \in Requests |-> "none"]
    /\ deliveries = [r \in Requests |-> <<>>]
    /\ errCalls = [r \in Requests |-> 0]
    /\ errSeen = [r \in Requests |-> 0]
    /\ doneEdit = [r \in Requests |-> "none"]
    /\ fsOps = [r \in Requests |-> 0]
    /\ ydl_opts = [r \in Requests |-> NoOpts]
    /\ events = [r \in Requests |-> <<>>]
    /\ uiPc = "idle"
    /\ text = <<>>
    /\ markup = <<>>
    /\ notices = 0
    /\ prompts = 0
    /\ clicked = NoButton
    /\ decoded = <<>>
    /\ percent = -1
    /\ rendered = NoBar

\* Every payload carries a tag of a button handle_url built.
Init ==
    /\ InitState
    /\ tags = DownloadOption

\* ------------------------------------------------------- handler fragments
\* Lines 91-93: the except clause of callback_query_handler sends the error message.
HandlerExcept(r) ==
    /\ pc' = [pc EXCEPT ![r] = "await_error"]
    /\ errCalls' = [errCalls EXCEPT ![r] = @ + 1]

\* Lines 89-90, after send_file returned: os.remove, then the 'done' edit.
\* os.remove raises when the file is gone, and the except clause takes over.
RemoveAndEditDone_edit_first(r) ==
    IF fs[artifact[r]] = NoFile
    THEN /\ HandlerExcept(r)
         /\ UNCHANGED <<fs, fsOps, doneEdit, events>>
    ELSE /\ fs' = [fs EXCEPT ![artifact[r]] = NoFile]
         /\ fsOps' = [fsOps EXCEPT ![r] = @ + 1]
         /\ doneEdit' = [doneEdit EXCEPT ![r] = "issued"]
         /\ events' = [events EXCEPT ![r] = @ \o <<"done_edit", "remove">>]
         /\ pc' = [pc EXCEPT ![r] = "await_done"]
         /\ UNCHANGED errCalls

RemoveAndEditDone(r) ==
    IF fs[artifact[r]] = NoFile
    THEN /\ HandlerExcept(r)
         /\ UNCHANGED <<fs, fsOps, doneEdit, events>>
    ELSE /\ fs' = [fs EXCEPT ![artifact[r]] = NoFile]
         /\ fsOps' = [fsOps EXCEPT ![r] = @ + 1]
         /\ doneEdit' = [doneEdit EXCEPT ![r] = "issued"]
         /\ events' = [events EXCEPT ![r] = @ \o <<"remove", "done_edit">>]
         /\ pc' = [pc EXCEPT ![r] = "await_done"]
         /\ UNCHANGED errCalls

\* ----------------------------------------------------------------- actions
\* Lines 79-83: a callback query arrives; the handler splits the payload and
\* sends the "starting" message.
Callback(r, o, u) ==
    /\ LoopIdle
    /\ pc[r] = "idle"
    /\ o \in tags
    /\ pc' = [pc EXCEPT ![r] = "await_start"]
    /\ option' = [option EXCEPT ![r] = o]
    /\ url' = [url EXCEPT ![r] = u]
    /\ UNCHANGED <<FFMPEG_AVAILABLE, uiVars, tags, ydl_opts, events, errSeen, running, fs, artifact, statusText, scheduled,
                   awaiting, nSamples, taskErrors, progressErrors, engineRes, seen, dlResult,
                   deliveries, errCalls, doneEdit, fsOps>>

\* Lines 83-87 and 122-126: the sink answers the "starting" message.  Rejected:
\* the exception leaves the handler (line 83 is outside the try).  Accepted:
\* get_ydl_opts, then download_file up to the call of ydl.extract_info, which
\* does not give up the event loop.
StartReplied(r, ok) ==
    /\ LoopIdle
    /\ pc[r] = "await_start"
    /\ IF ~ok
       THEN /\ pc' = [pc EXCEPT ![r] = "crashed"]
            /\ UNCHANGED <<statusText, running, errCalls, ydl_opts>>
       ELSE /\ statusText' = [statusText EXCEPT ![r] = "starting"]
            /\ ydl_opts' = [ydl_opts EXCEPT ![r] = get_ydl_opts(option[r], FFMPEG_AVAILABLE)]
            /\ IF get_ydl_opts(option[r], FFMPEG_AVAILABLE).raised
               THEN /\ HandlerExcept(r)
                    /\ UNCHANGED running
               ELSE /\ pc' = [pc EXCEPT ![r] = "extracting"]
                    /\ running' = r
                    /\ UNCHANGED errCalls
    /\ UNCHANGED <<FFMPEG_AVAILABLE, uiVars, tags, events, errSeen, option, url, fs, artifact, scheduled, awaiting,
                   nSamples, taskErrors, progressErrors, engineRes, seen, dlResult, deliveries,
                   doneEdit, fsOps>>

\* Line 99: the engine calls the progress hook with a sample; the hook creates
\* a task for progress_hook, which cannot start while the handler holds the loop.
EngineProgress(r, status) ==
    /\ running = r
    /\ pc[r] = "extracting"
    /\ nSamples < MaxSamples
    /\ nSamples' = nSamples + 1
    /\ scheduled' = [scheduled EXCEPT ![r][status] = @ + 1]
    /\ UNCHANGED <<FFMPEG_AVAILABLE, uiVars, tags, ydl_opts, events, errSeen, pc, option, url, running, fs, artifact,
                   statusText, awaiting, taskErrors, progressErrors, engineRes, seen, dlResult,
                   deliveries, errCalls, doneEdit, fsOps>>

\* Lines 126-146, 88 and 148-154: ydl.extract_info ends; download_file derives
\* the file name and checks the file; on success send_file issues the delivery
\* call, on failure the except clause of the handler sends the error message.
EngineReturn(r, outcome) ==
    LET opts == ydl_opts[r]
        path == DerivedFile(Title(url[r]), opts)
        disk == EngineWrite(fs, r, path, outcome)
        res == download_file(outcome, disk[path])
    IN  /\ running = r
        /\ pc[r] = "extracting"
        /\ running' = NoTask
        /\ fs' = disk
        /\ fsOps' = [fsOps EXCEPT ![r] = IF disk # fs THEN @ + 1 ELSE @]
        /\ engineRes' = [engineRes EXCEPT ![r] = outcome]
        /\ seen' = [seen EXCEPT ![r] = IF outcome = "raise" THEN Unchecked ELSE disk[path]]
        /\ dlResult' = [dlResult EXCEPT ![r] = res]
        /\ IF res = "ok"
           THEN /\ artifact' = [artifact EXCEPT ![r] = path]
                /\ deliveries' = [deliveries EXCEPT ![r] =
                       Append(@, [kind |-> DeliveryKind(option[r]), path |-> path,
                                  reply |-> "pending"])]
                /\ events' = [events EXCEPT ![r] = Append(@, "deliver")]
                /\ pc' = [pc EXCEPT ![r] = "await_deliver"]
                /\ UNCHANGED errCalls
           ELSE /\ HandlerExcept(r)
                /\ UNCHANGED <<artifact, deliveries, events>>
        /\ UNCHANGED <<FFMPEG_AVAILABLE, uiVars, tags, ydl_opts, errSeen, option, url, statusText, scheduled, awaiting,
                       nSamples, taskErrors, progressErrors, doneEdit>>

\* Lines 152-158 and 89-90: the sink answers send_video / send_audio.
\* Accepted: send_file returns, the handler removes the file and issues the
\* 'done' edit.  Rejected: send_file catches it and sends its own error message.
DeliverReplied(r, ok) ==
    /\ LoopIdle
    /\ pc[r] = "await_deliver"
    /\ IF ok
       THEN RemoveAndEditDone(r)
       ELSE /\ pc' = [pc EXCEPT ![r] = "await_sendfail"]
            /\ errCalls' = [errCalls EXCEPT ![r] = @ + 1]
            /\ UNCHANGED <<fs, fsOps, doneEdit, events>>
    /\ deliveries' = [deliveries EXCEPT ![r][Len(deliveries[r])].reply =
           IF ok THEN "ok" ELSE "rejected"]
    /\ UNCHANGED <<FFMPEG_AVAILABLE, uiVars, tags, ydl_opts, errSeen, option, url, running, artifact, statusText,
                   scheduled, awaiting, nSamples, taskErrors, progressErrors,
                   engineRes, seen, dlResult>>

\* Lines 158 and 89-93: the sink answers the error message of send_file.
\* Accepted: send_file returns normally and the handler goes on to os.remove.
\* Rejected: the exception leaves send_file and reaches the handler's except.
SendFailReplied(r, ok) ==
    /\ LoopIdle
    /\ pc[r] = "await_sendfail"
    /\ IF ok
       THEN RemoveAndEditDone(r)
       ELSE /\ HandlerExcept(r)
            /\ UNCHANGED <<fs, fsOps, doneEdit, events>>
    /\ errSeen' = [errSeen EXCEPT ![r] = IF ok THEN @ + 1 ELSE @]
    /\ UNCHANGED <<FFMPEG_AVAILABLE, uiVars, tags, ydl_opts, option, url, running, artifact, statusText,
                   scheduled, awaiting, nSamples, taskErrors, progressErrors, engineRes, seen,
                   dlResult, deliveries>>

\* Lines 90-93: the sink answers the 'done' edit.  Rejected: the exception is
\* caught by the handler's except clause, which sends the error message.
DoneReplied(r, ok) ==
    /\ LoopIdle
    /\ pc[r] = "await_done"
    /\ IF ok
       THEN /\ statusText' = [statusText EXCEPT ![r] = "done"]
            /\ doneEdit' = [doneEdit EXCEPT ![r] = "applied"]
            /\ pc' = [pc EXCEPT ![r] = "done"]
            /\ UNCHANGED errCalls
       ELSE /\ doneEdit' = [doneEdit EXCEPT ![r] = "rejected"]
            /\ HandlerExcept(r)
            /\ UNCHANGED statusText
    /\ UNCHANGED <<FFMPEG_AVAILABLE, uiVars, tags, ydl_opts, events, errSeen, option, url, running, fs, artifact, scheduled,
                   awaiting, nSamples, taskErrors, progressErrors, engineRes, seen, dlResult,
                   deliveries, fsOps>>

\* Lines 93-94: the sink answers the handler's error message; the handler ends
\* (by returning, or with the exception of the rejected send).
ErrorReplied(r, ok) ==
    /\ LoopIdle
    /\ pc[r] = "await_error"
    /\ pc' = [pc EXCEPT ![r] = "failed"]
    /\ errSeen' = [errSeen EXCEPT ![r] = IF ok THEN @ + 1 ELSE @]
    /\ UNCHANGED <<FFMPEG_AVAILABLE, uiVars, tags, ydl_opts, events, option, url, running, fs, artifact, statusText,
                   scheduled, awaiting, nSamples, taskErrors, progressErrors, engineRes, seen,
                   dlResult, deliveries, errCalls, doneEdit, fsOps>>

\* Lines 39-48: the event loop starts a progress task; for a 'downloading'
\* sample it issues the edit of the status message, for any other it ends.
ProgressTaskRun(r, status) ==
    /\ running = NoTask
    /\ scheduled[r][status] > 0
    /\ scheduled' = [scheduled EXCEPT ![r][status] = @ - 1]
    /\ awaiting' = [awaiting EXCEPT ![r] = @ + progress_hook_edits(status)]
    /\ UNCHANGED <<FFMPEG_AVAILABLE, uiVars, tags, ydl_opts, events, errSeen, pc, option, url, running, fs, artifact,
                   statusText, nSamples, taskErrors, progressErrors, engineRes, seen, dlResult,
                   deliveries, errCalls, doneEdit, fsOps>>

\* Lines 48-50: the sink answers a progress edit; a rejection is logged.
ProgressEditReplied(r, ok) ==
    /\ LoopIdle
    /\ awaiting[r] > 0
    /\ awaiting' = [awaiting EXCEPT ![r] = @ - 1]
    /\ statusText' = [statusText EXCEPT ![r] = IF ok THEN "progress" ELSE @]
    /\ taskErrors' = IF progress_hook_result(ok) = "raised"
                     THEN taskErrors + 1 ELSE taskErrors
    /\ progressErrors' = [progressErrors EXCEPT ![r] =
           IF ~ok /\ progress_hook_result(ok) = "returned" THEN @ + 1 ELSE @]
    /\ UNCHANGED <<FFMPEG_AVAILABLE, uiVars, tags, ydl_opts, events, errSeen, pc, option, url, running, fs, artifact,
                   scheduled, nSamples, engineRes, seen, dlResult, deliveries,
                   errCalls, doneEdit, fsOps>>

Next ==
    \/ \E r \in Requests, o \in Tags, u \in Urls : Callback(r, o, u)
    \/ \E r \in Requests, ok \in BOOLEAN : StartReplied(r, ok)
    \/ \E r \in Requests, s \in SampleStatus : EngineProgress(r, s)
    \/ \E r \in Requests, out \in EngineOutcomes : EngineReturn(r, out)
    \/ \E r \in Requests, ok \in BOOLEAN : DeliverReplied(r, ok)
    \/ \E r \in Requests, ok \in BOOLEAN : SendFailReplied(r, ok)
    \/ \E r \in Requests, ok \in BOOLEAN : DoneReplied(r, ok)
    \/ \E r \in Requests, ok \in BOOLEAN : ErrorReplied(r, ok)
    \/ \E r \in Requests, s \in SampleStatus : ProgressTaskRun(r, s)
    \/ \E r \in Requests, ok \in BOOLEAN : ProgressEditReplied(r, ok)

Spec == Init /\ [][Next]_vars

\* Runs in which payloads carry any tag.
InitAnyTag ==
    /\ InitState
    /\ tags = Tags

SpecAnyTag == InitAnyTag /\ [][Next]_vars

\* ------------------------------------------------- prompt and bar actions
mainVars == <<FFMPEG_AVAILABLE, pc, option, url, running, fs, artifact, statusText,
              scheduled, awaiting, nSamples, taskErrors, progressErrors, engineRes,
              seen, dlResult, deliveries, errCalls, errSeen, doneEdit, fsOps,
              ydl_opts, events, tags>>

\* Lines 58-76: a message arrives; handle_url builds the keyboard and sends the
\* notice when ffmpeg is missing, the prompt otherwise.
HandleUrl(u) ==
    /\ uiPc = "idle"
    /\ text' = u
    /\ markup' = handle_url_markup(u, FFMPEG_AVAILABLE)
    /\ IF FFMPEG_AVAILABLE
       THEN /\ prompts' = prompts + 1
            /\ uiPc' = "await_prompt"
            /\ UNCHANGED notices
       ELSE /\ notices' = notices + 1
            /\ uiPc' = "await_notice"
            /\ UNCHANGED prompts
    /\ UNCHANGED <<mainVars, clicked, decoded, percent, rendered>>

\* Lines 74-76: the sink answers the notice; accepted, the prompt is sent;
\* rejected, the exception ends handle_url.
NoticeReplied(ok) ==
    /\ uiPc = "await_notice"
    /\ IF ok
       THEN /\ prompts' = prompts + 1
            /\ uiPc' = "await_prompt"
       ELSE /\ uiPc' = "crashed"
            /\ UNCHANGED prompts
    /\ UNCHANGED <<mainVars, text, markup, notices, clicked, decoded, percent, rendered>>

\* Line 76: the sink answers the prompt.
PromptReplied(ok) ==
    /\ uiPc = "await_prompt"
    /\ uiPc' = IF ok THEN "prompted" ELSE "crashed"
    /\ UNCHANGED <<mainVars, text, markup, notices, prompts, clicked, decoded, percent,
                   rendered>>

\* Line 80: the user clicks a button of the prompt and callback_query_handler
\* splits its callback data.
Click(i, j) ==
    /\ uiPc = "prompted"
    /\ i \in 1..Len(markup)
    /\ j \in 1..Len(markup[i])
    /\ clicked' = markup[i][j]
    /\ decoded' = split_first_colon(markup[i][j].callback_data)
    /\ uiPc' = "clicked"
    /\ UNCHANGED <<mainVars, text, markup, notices, prompts, percent, rendered>>

\* Lines 41-44: progress_hook renders the bar of a 'downloading' sample.
RenderBar(p10) ==
    /\ uiPc = "idle"
    /\ percent' = p10
    /\ rendered' = create_progress_bar(p10)
    /\ uiPc' = "rendered"
    /\ UNCHANGED <<mainVars, text, markup, notices, prompts, clicked, decoded>>

UiNext ==
    \/ \E u \in UrlTexts : HandleUrl(u)
    \/ \E ok \in BOOLEAN : NoticeReplied(ok)
    \/ \E ok \in BOOLEAN : PromptReplied(ok)
    \/ \E i \in 1..2, j \in 1..2 : Click(i, j)
    \/ \E p10 \in Percents : RenderBar(p10)

\* The prompt, the click on it and the rendering of a bar, on their own.
UiSpec == Init /\ [][UiNext]_vars

\* ------------------------------------------------------------------ claims
\* The handler of r has ended: normally, after its error message, or with the
\* exception of the rejected "starting" message.
Ended(r) == pc[r] \in Terminal \cup {"crashed"}

\* r holds an artifact that download_file returned and os.remove has not yet removed.
Holding(r) == pc[r] \in {"await_deliver", "await_sendfail"}

\* A step of the handler of q: the arrival of its callback or its resumption
\* at the reply it awaits.
HandlerStep(q) ==
    \/ \E o \in Tags, u \in Urls : Callback(q, o, u)
    \/ \E ok \in BOOLEAN :
          \/ StartReplied(q, ok)
          \/ DeliverReplied(q, ok)
          \/ SendFailReplied(q, ok)
          \/ DoneReplied(q, ok)
          \/ ErrorReplied(q, ok)

\* C1: when a request has reached a terminal state (done or failed), no file
\* produced by its extraction remains on disk; in particular not the empty
\* file that made download_file fail with the empty-artifact error.
C1_NoArtifactLeftAtEnd ==
    \A r \in Requests :
        pc[r] \in Terminal => \A p \in Paths : fs[p].owner # r

\* C2: two requests for the same URL with different profiles hold artifacts at
\* different paths, and the file a request is delivering is on disk and its
\* own: no os.remove of the other request has removed it.
C2_OwnArtifactPath ==
    \A r \in Requests :
        Holding(r) =>
            /\ fs[artifact[r]] # NoFile
            /\ \A q \in Requests \ {r} :
                   (Holding(q) /\ url[q] = url[r] /\ option[q] # option[r])
                       => artifact[q] # artifact[r]

\* C3: a request that has ended has produced exactly one terminal message:
\* the 'done' edit applied with the file delivered and no error message shown,
\* or no 'done' edit applied and an error message sent, of which the sink
\* accepted at most one (a message the sink rejected is not counted against
\* the claim).
C3_ExactlyOneTerminalMessage ==
    \A r \in Requests :
        pc[r] \in Terminal =>
            \/ /\ doneEdit[r] = "applied"
               /\ errSeen[r] = 0
               /\ Len(deliveries[r]) = 1
               /\ deliveries[r][1].reply = "ok"
            \/ /\ doneEdit[r] # "applied"
               /\ errCalls[r] >= 1
               /\ errSeen[r] <= 1

\* C4: once delivery of the artifact has been attempted, the artifact file of
\* the request is absent from disk when the request ends, whatever the sink
\* answered to the delivery call and to the messages reporting its failure.
C4_DeletedWhateverDelivery ==
    \A r \in Requests :
        (pc[r] \in Terminal /\ Len(deliveries[r]) > 0) =>
            \/ fs[artifact[r]] = NoFile
            \/ fs[artifact[r]].owner # r

\* C5: a delivery call is made for a request only if its engine call returned
\* and the derived file was found to exist with size > 0; when the engine
\* returned but the derived file did not exist, download_file failed with the
\* artifact-missing error and the request makes no delivery call.
C5_DeliveryOnlyAfterValidation ==
    \A r \in Requests :
        /\ Len(deliveries[r]) > 0 =>
               /\ engineRes[r] \in EngineOutcomes \ {"raise"}
               /\ seen[r] \notin {NoFile, Unchecked}
               /\ seen[r].size > 0
        /\ (engineRes[r] \in EngineOutcomes \ {"raise"} /\ seen[r] = NoFile) =>
               /\ dlResult[r] = "ArtifactMissing"
               /\ deliveries[r] = <<>>

\* C5 witness: one request delivered its validated file and another ended
\* after its engine returned without leaving the derived file.
C5_Witness ==
    \E r, q \in Requests :
        /\ Len(deliveries[r]) = 1 /\ seen[r].size > 0
        /\ pc[q] = "failed" /\ engineRes[q] = "nofile" /\ seen[q] = NoFile
        /\ dlResult[q] = "ArtifactMissing"

C7_ProgressRejectionSwallowed ==
    [][\A r \in Requests :
          ProgressEditReplied(r, FALSE) =>
              /\ UNCHANGED handlerVars
              /\ statusText' = statusText
              /\ taskErrors' = taskErrors
              /\ progressErrors'[r] = progressErrors[r] + 1]_vars

\* C7 witness: a request ended as done, its file delivered and removed, after
\* one of its progress edits had been rejected.
C7_Witness ==
    \E r \in Requests :
        /\ progressErrors[r] > 0
        /\ pc[r] = "done"
        /\ deliveries[r][1].reply = "ok"
        /\ fs[artifact[r]] = NoFile

\* C8: when the sink rejects the 'done' edit after the file was delivered and
\* deleted, no error message is sent for the request and it does not fail.
C8_DoneEditRejectionSwallowed ==
    \A r \in Requests :
        (doneEdit[r] = "rejected" /\ deliveries[r][1].reply = "ok") =>
            /\ errCalls[r] = 0
            /\ pc[r] \notin {"await_error", "failed"}

\* C9: while a request is inside the engine call, the event loop is free:
\* every other request whose handler has not ended can take its next step,
\* and every scheduled progress task can be started.
C9_ExtractionYields ==
    \A r \in Requests :
        pc[r] = "extracting" =>
            /\ \A q \in Requests \ {r} : ~Ended(q) => ENABLED HandlerStep(q)
            /\ \A q \in Requests, s \in SampleStatus :
                   scheduled[q][s] > 0 => ENABLED ProgressTaskRun(q, s)

\* C10: once the engine has emitted a downloading sample for a job, the
\* progress edit for it can be issued to the sink while the engine call of
\* that job has not returned.
C10_ProgressIsLive ==
    \A r \in Requests :
        (pc[r] = "extracting" /\ scheduled[r]["downloading"] > 0)
            => ENABLED ProgressTaskRun(r, "downloading")

\* C11: get_ydl_opts gives, for video_high, the best video+audio selector and
\* the MP4 conversion; for video_low, the worst video+audio selector and the
\* same conversion; for audio with ffmpeg, the best-audio selector and the
\* mp3/192 extraction; for audio without ffmpeg it raises and returns no
\* options, so that the engine is never called.
C11_OptionsMatchProfile ==
    \A r \in Requests :
        statusText[r] # "none" =>
            /\ option[r] = VIDEO_HIGH =>
                   ydl_opts[r] = [raised |-> FALSE, format |-> "bestvideo+bestaudio/best",
                                  postprocessor |-> "FFmpegVideoConvertor",
                                  target |-> "mp4", quality |-> "none"]
            /\ option[r] = VIDEO_LOW =>
                   ydl_opts[r] = [raised |-> FALSE, format |-> "worstvideo+worstaudio/worst",
                                  postprocessor |-> "FFmpegVideoConvertor",
                                  target |-> "mp4", quality |-> "none"]
            /\ (option[r] = AUDIO /\ FFMPEG_AVAILABLE) =>
                   ydl_opts[r] = [raised |-> FALSE, format |-> "bestaudio/best",
                                  postprocessor |-> "FFmpegExtractAudio",
                                  target |-> "mp3", quality |-> "192"]
            /\ (option[r] = AUDIO /\ ~FFMPEG_AVAILABLE) =>
                   /\ ydl_opts[r].raised
                   /\ ydl_opts[r].format = "none"
                   /\ pc[r] \in {"await_error", "failed"}
                   /\ engineRes[r] = "none"

\* C11 witness: one request got the video_low options while the audio request
\* of the same run, without ffmpeg, got the error.
C11_Witness ==
    \E r, q \in Requests :
        /\ option[r] = VIDEO_LOW /\ ydl_opts[r].format = "worstvideo+worstaudio/worst"
        /\ option[q] = AUDIO /\ ~FFMPEG_AVAILABLE
        /\ statusText[q] # "none" /\ ydl_opts[q].raised

\* The elements of a sequence.
Range(seq) == {seq[i] : i \in 1..Len(seq)}

\* The filled cells of a rendered bar.
FilledCells(b) == {i \in 1..Len(b) : b[i] = "full"}

\* C12: for every percent from 0 to 100 the bar has exactly 20 cells, of which
\* floor(20 * percent / 100) are filled and the others unfilled; none is
\* filled at 0 and all are at 100.
C12_BarOfTwentyCells ==
    uiPc = "rendered" =>
        /\ Len(rendered.bar) = 20
        /\ Cardinality(FilledCells(rendered.bar)) = (20 * percent) \div 1000
        /\ \A i \in 1..Len(rendered.bar) : rendered.bar[i] \in {"full", "empty"}
        /\ percent = 0 => FilledCells(rendered.bar) = {}
        /\ percent = 1000 => FilledCells(rendered.bar) = 1..20

\* C12 witness: the bar of 45.5 percent, 9 cells filled.
C12_Witness ==
    /\ uiPc = "rendered"
    /\ percent = 455
    /\ Cardinality(FilledCells(rendered.bar)) = 9

\* The tag handle_url encodes in the button of a given text.
LabelTag(label) ==
    CASE label = "Video (high quality)" -> VIDEO_HIGH
      [] label = "Video (low quality)" -> VIDEO_LOW
      [] label = "Audio only" -> AUDIO

\* C13: the payload '<tag>:<url>' of a clicked button, split at the first
\* colon, gives back the tag of the button and the URL of the message, also
\* when the URL holds colons; so does every defined tag with that URL.
C13_PayloadRoundTrip ==
    /\ uiPc = "clicked" => decoded = <<Chars(LabelTag(clicked.text)), text>>
    /\ \A t \in DownloadOption :
           split_first_colon(callback_data(t, text)) = <<Chars(t), text>>

\* C13 witness: a button was clicked whose URL holds two colons or more.
C13_Witness ==
    /\ uiPc = "clicked"
    /\ Cardinality(Colons(text)) >= 2
    /\ Len(decoded) = 2

\* The tags the buttons of a row carry, read from their callback data.
RowTags(row) ==
    [j \in 1..Len(row) |->
        CHOOSE t \in Tags \cup {"none"} :
            \/ row[j].callback_data = Chars(t) \o <<":">> \o text
            \/ /\ t = "none"
               /\ \A t2 \in Tags : row[j].callback_data # Chars(t2) \o <<":">> \o text]

\* C14: the keyboard handle_url built offers video_high then video_low, offers
\* audio if and only if ffmpeg is available, and the 'audio unavailable'
\* notice is sent if and only if it is not.
C14_PromptOffers ==
    uiPc \notin {"idle", "rendered"} =>
        /\ Len(markup) \in 1..2
        /\ RowTags(markup[1]) = <<VIDEO_HIGH, VIDEO_LOW>>
        /\ Len(markup) = 2 <=> FFMPEG_AVAILABLE
        /\ Len(markup) = 2 => RowTags(markup[2]) = <<AUDIO>>
        /\ notices = 1 <=> ~FFMPEG_AVAILABLE
        /\ notices = 0 <=> FFMPEG_AVAILABLE

\* C14 witness: without ffmpeg the prompt reached the user with the two video
\* buttons, after the notice.
C14_Witness ==
    /\ uiPc = "prompted"
    /\ ~FFMPEG_AVAILABLE
    /\ notices = 1
    /\ Len(markup) = 1

\* C15 as stated: the closing actions of a request occur in the order delivery
\* call, 'done' edit, deletion of the file; the file is never deleted before
\* the 'done' edit was issued.
C15_DeliverEditRemove ==
    \A r \in Requests :
        events[r] \in {<<>>, <<"deliver">>, <<"deliver", "done_edit">>,
                       <<"deliver", "done_edit", "remove">>}

\* C15 amended: the order is delivery call, deletion of the file, 'done'
\* edit; the 'done' edit is issued only once the file has been deleted.
C15_DeliverRemoveEdit ==
    \A r \in Requests :
        /\ events[r] \in {<<>>, <<"deliver">>, <<"deliver", "remove", "done_edit">>}
        /\ doneEdit[r] # "none" <=> Len(events[r]) = 3
        /\ Len(events[r]) >= 1 <=> Len(deliveries[r]) = 1

\* C15 witness: a request ended as done after the three closing actions.
C15_Witness ==
    \E r \in Requests :
        /\ pc[r] = "done"
        /\ deliveries[r][1].reply = "ok"
        /\ events[r] = <<"deliver", "remove", "done_edit">>

\* C16: a job that ended as done made exactly one delivery call, send_video
\* with '<title>.mp4' for the two video profiles and send_audio with
\* '<title>.mp3' for audio; the call came before the deletion, the step that
\* deletes leaves no file at the delivered path, and no file the job produced
\* is there once the job is done.
C16_DeliveryMatchesProfile ==
    /\ [](\A r \in Requests :
            (pc[r] = "done" /\ option[r] \in DownloadOption) =>
                /\ Len(deliveries[r]) = 1
                /\ option[r] \in {VIDEO_HIGH, VIDEO_LOW} =>
                       /\ deliveries[r][1].kind = "send_video"
                       /\ deliveries[r][1].path = <<Title(url[r]), "mp4">>
                /\ option[r] = AUDIO =>
                       /\ deliveries[r][1].kind = "send_audio"
                       /\ deliveries[r][1].path = <<Title(url[r]), "mp3">>
                /\ Len(events[r]) = 3 /\ events[r][1] = "deliver" /\ events[r][2] = "remove"
                /\ \/ fs[deliveries[r][1].path] = NoFile
                   \/ fs[deliveries[r][1].path].owner # r)
    /\ [][\A r \in Requests :
            ("remove" \notin Range(events[r]) /\ "remove" \in Range(events'[r])) =>
                /\ Len(deliveries[r]) = 1
                /\ events[r] = <<"deliver">>
                /\ fs[deliveries[r][1].path] # NoFile
                /\ fs'[deliveries[r][1].path] = NoFile]_vars

\* C16 witness: an audio job and a video job both ended as done.
C16_Witness ==
    \E r, q \in Requests :
        /\ pc[r] = "done" /\ option[r] = AUDIO /\ deliveries[r][1].reply = "ok"
        /\ pc[q] = "done" /\ option[q] = VIDEO_LOW /\ deliveries[q][1].reply = "ok"

\* C17: every sample makes one progress task; the task of a 'downloading'
\* sample issues exactly one edit of the status message, the task of any
\* other sample issues no sink call at all.
C17_OneEditPerDownloadingSample ==
    [][\A r \in Requests, s \in SampleStatus :
          /\ EngineProgress(r, s) =>
                 /\ scheduled'[r][s] = scheduled[r][s] + 1
                 /\ awaiting' = awaiting
          /\ ProgressTaskRun(r, s) =>
                 /\ awaiting'[r] = awaiting[r] + (IF s = "downloading" THEN 1 ELSE 0)
                 /\ \A q \in Requests \ {r} : awaiting'[q] = awaiting[q]
                 /\ UNCHANGED <<statusText, errCalls, deliveries, doneEdit>>]_vars

\* C17 witness: of the two samples of a request, the 'downloading' one has its
\* edit at the sink and the other one's task has run without any call.
C17_Witness ==
    \E r \in Requests :
        /\ nSamples = 2
        /\ \A q \in Requests \ {r} : pc[q] = "idle"
        /\ \A q \in Requests, s \in SampleStatus : scheduled[q][s] = 0
        /\ \A q \in Requests : progressErrors[q] = 0
        /\ statusText[r] = "starting"
        /\ awaiting[r] = 1

\* C18: once the 'done' edit of a request has been applied, the text of its
\* status message is the 'done' text: no progress edit is applied after it.
C18_DoneTextIsFinal ==
    \A r \in Requests :
        doneEdit[r] = "applied" => statusText[r] = "done"

\* C19: for every tag a payload can carry, the options of get_ydl_opts, the
\* extension download_file expects and the delivery call of send_file agree
\* (all video or all audio), and the engine is never called with options that
\* have no format selector.
C19_ClassificationsAgree ==
    \A r \in Requests :
        /\ pc[r] = "extracting" => ydl_opts[r].format # "none"
        /\ Len(deliveries[r]) > 0 =>
               \/ /\ deliveries[r][1].kind = "send_video"
                  /\ deliveries[r][1].path[2] = "mp4"
                  /\ ydl_opts[r].postprocessor = "FFmpegVideoConvertor"
               \/ /\ deliveries[r][1].kind = "send_audio"
                  /\ deliveries[r][1].path[2] = "mp3"
                  /\ ydl_opts[r].postprocessor = "FFmpegExtractAudio"

====
